---- MODULE Spec2Model ----
(***************************************************************************)
(* Model of the backtest service of sigmaInvestorAgent: main.run_backtest  *)
(* (split-aware buy-and-hold benchmark, the backtrader run, the output     *)
(* record) and the strategies of strategy.py.                              *)
(*                                                                         *)
(* Numbers.  Python floats are modelled as exact rationals <<n, d>> with   *)
(* d > 0 and gcd(n, d) = 1; the IEEE special values the code can produce   *)
(* are <<1, 0>> (+inf), <<-1, 0>> (-inf) and <<0, 0>> (NaN).  On the price *)
(* sets used below no comparison of the code falls within rounding error   *)
(* of its threshold, so exact arithmetic decides every branch as the       *)
(* floats do.                                                              *)
(*                                                                         *)
(* backtrader.  cerebro.run() is modelled by what the library does with    *)
(* its defaults (the code changes none of them): an order created in       *)
(* next() on bar t is a Market order; on bar t+1 the broker first checks   *)
(* it against the cash at the price it was created at, then executes it at *)
(* the OPEN of bar t+1, and rejects it (Margin) when the cash does not     *)
(* cover it; Strategy.buy/sell return the order object (truthy) as soon as *)
(* the size is non-zero; observers and analyzers are stepped once per bar, *)
(* before the strategy's minimum period too (their prenext calls next).    *)
(***************************************************************************)
EXTENDS Integers, Sequences, FiniteSets, TLC

VARIABLES
    pc,                \* where main is: event, parsed, fetched, running, done, failed
    strategy,          \* evt["strategy"]: the name of the strategy class
    params,            \* evt["params"] merged with the class defaults
    cash,              \* evt["cash"]: the initial cash
    raw,               \* the rows the data provider returned to the fetcher
    df,                \* the DataFrame get_stock_daily returned: a sequence of bars
    daily_returns,     \* run_backtest: daily_returns after the split filter
    benchmark_values,  \* run_backtest: the full benchmark curve
    buy_hold_return,   \* run_backtest: buy_hold_return
    broker,            \* cerebro.broker: cash, position, pending orders, value
    strat,             \* the strategy instance: len(self), signals, counters
    value_array,       \* strat.observers.broker.lines.value.array
    analyzers,         \* DrawDown and TradeAnalyzer state
    result,            \* what run_backtest returns: summary and chart
    retry              \* get_stock_daily: its arguments, its loop and how it ended

vars == <<pc, strategy, params, cash, raw, df, daily_returns, benchmark_values,
          buy_hold_return, broker, strat, value_array, analyzers, result, retry>>

----------------------------------------------------------------------------
(* Floats as rationals *)

Abs(x) == IF x < 0 THEN -x ELSE x

Max(a, b) == IF a >= b THEN a ELSE b

Min(a, b) == IF a <= b THEN a ELSE b

Sign(x) == IF x > 0 THEN 1 ELSE IF x < 0 THEN -1 ELSE 0

RECURSIVE GCD(_, _)
GCD(a, b) == IF b = 0 THEN a ELSE GCD(b, a % b)

\* the float n/d; d = 0 gives inf, -inf or NaN
Norm(n, d) ==
    IF d = 0 THEN <<Sign(n), 0>>
    ELSE LET s == IF d < 0 THEN -1 ELSE 1
             g == GCD(Abs(n), Abs(d))
         IN  <<(s * n) \div g, (s * d) \div g>>

R(n) == <<n, 1>>

NaN == <<0, 0>>

Inf == <<1, 0>>

IsNaN(x) == x = NaN

IsFinite(x) == x[2] # 0

FAdd(a, b) ==
    IF IsNaN(a) \/ IsNaN(b) THEN NaN
    ELSE IF ~IsFinite(a) /\ ~IsFinite(b) THEN (IF a = b THEN a ELSE NaN)
    ELSE IF ~IsFinite(a) THEN a
    ELSE IF ~IsFinite(b) THEN b
    ELSE Norm(a[1] * b[2] + b[1] * a[2], a[2] * b[2])

FNeg(a) == <<-a[1], a[2]>>

FSub(a, b) == FAdd(a, FNeg(b))

FMul(a, b) ==
    IF IsNaN(a) \/ IsNaN(b) THEN NaN
    ELSE IF IsFinite(a) /\ IsFinite(b) THEN Norm(a[1] * b[1], a[2] * b[2])
    ELSE <<Sign(a[1]) * Sign(b[1]), 0>>

\* numpy's float division: x/0 is +-inf, 0/0 is NaN (Python's own / raises)
FDiv(a, b) ==
    IF IsNaN(a) \/ IsNaN(b) THEN NaN
    ELSE IF ~IsFinite(a) /\ ~IsFinite(b) THEN NaN
    ELSE IF ~IsFinite(b) THEN R(0)
    ELSE IF ~IsFinite(a) THEN <<a[1] * (IF b[1] < 0 THEN -1 ELSE 1), 0>>
    ELSE Norm(a[1] * b[2], a[2] * b[1])

\* a < b on floats: false as soon as one side is NaN
FLt(a, b) ==
    IF IsNaN(a) \/ IsNaN(b) THEN FALSE
    ELSE IF ~IsFinite(a) /\ ~IsFinite(b) THEN a[1] < b[1]
    ELSE IF ~IsFinite(a) THEN a[1] < 0
    ELSE IF ~IsFinite(b) THEN b[1] > 0
    ELSE a[1] * b[2] < b[1] * a[2]

FLe(a, b) == FLt(a, b) \/ (~IsNaN(a) /\ a = b)

FAbs(a) == <<Abs(a[1]), a[2]>>

FMax(a, b) == IF FLt(a, b) THEN b ELSE a

FMin(a, b) == IF FLt(b, a) THEN b ELSE a

----------------------------------------------------------------------------
(* The DataFrame *)

Bar(o, c) == [Open |-> o, High |-> Max(o, c), Low |-> Min(o, c), Close |-> c]

SeriesUpTo(bars, n) == UNION {[1..k -> bars] : k \in 1..n}

\* closes of the benchmark-only specification: every n:1 split, n in 2..20
BenchCloses == 0..20

MaxBenchBars == 2

BenchSeries == SeriesUpTo({Bar(c, c) : c \in BenchCloses}, MaxBenchBars)

None == "None"

\* an order: its signed size (negative to sell), the close it was created at,
\* and the size the strategy asked for
NoOrder == [size |-> R(0), price |-> R(0), req |-> R(0)]

\* bt.Cerebro(): the default broker, no position, no order, nothing executed
EmptyBroker == [cash |-> R(10000), size |-> R(0), price |-> R(0), value |-> R(10000),
                order |-> NoOrder, buys |-> 0, sells |-> 0]

\* BaseStrategy.__init__ and the counters the variants add in theirs
\* (Grid's last_price is None until the first bar: -1 here, no price being negative)
EmptyStrat == [len |-> 0, buy_signals |-> <<>>, sell_signals |-> <<>>,
               day_count |-> 0, total_invested |-> 0, last_price |-> -1,
               period_count |-> 0]

\* DrawDown.create_analysis, TradeAnalyzer.create_analysis, and the open trade
EmptyAnalyzers ==
    [dd |-> [maxvalue |-> <<-1, 0>>, value |-> NaN, len |-> 0, maxlen |-> 0,
             drawdown |-> R(0), maxdrawdown |-> R(0)],
     trades |-> [total |-> 0, open |-> 0, closed |-> 0, won |-> 0, lost |-> 0],
     trade |-> [size |-> R(0), pnl |-> R(0)]]

\* get_stock_daily is not being followed
NoCall == [status |-> "none"]

\* main is called with an event: nothing resolved, nothing fetched, nothing run
InitWith(strategies, cashes) ==
    /\ pc = "event"
    /\ \E s \in strategies : strategy = s.name /\ params = s.params
    /\ cash \in cashes
    /\ raw = <<>>
    /\ df = <<>>
    /\ daily_returns = <<>>
    /\ benchmark_values = <<>>
    /\ buy_hold_return = R(0)
    /\ broker = EmptyBroker
    /\ strat = EmptyStrat
    /\ value_array = <<>>
    /\ analyzers = EmptyAnalyzers
    /\ result = None
    /\ retry = NoCall

\* the classes of strategy.py that are strategies to choose from
Variants == {"SmaCross", "BuyHold", "RSI", "MACD", "Boll", "Turtle", "Grid",
             "DualThrust", "DCA", "ValueAveraging", "SmileCurve"}

\* the names getattr finds in the module strategy: its classes and its import
ModuleAttributes == Variants \cup {"BaseStrategy", "bt"}

\* main: parse_event, then StrategyCls = getattr(strategy module, strategy);
\* a name the module does not have raises AttributeError
GetStrategy ==
    /\ pc = "event"
    /\ pc' = IF strategy \in ModuleAttributes THEN "parsed" ELSE "failed"
    /\ UNCHANGED <<retry, strategy, params, cash, raw, df, daily_returns, benchmark_values,
                   buy_hold_return, broker, strat, value_array, analyzers, result>>

\* a row of the provider's frame: its date, its prices, and whether one of the
\* required columns is NaN once pd.to_numeric(errors='coerce') has been applied
Row(date, bar, isna) == [Date |-> date, Bar |-> bar, isna |-> isna]

\* what a provider returns for a clean series: one row per bar, dates ascending
Provider(d) == [i \in 1..Len(d) |-> Row(i, d[i], FALSE)]

HasValues(row) == ~row.isna

\* df[required_cols].dropna()
DropNa(rows) == SelectSeq(rows, HasValues)

Ascending(rows) == \A i \in 1..(Len(rows) - 1) : rows[i].Date <= rows[i + 1].Date

StrictlyAscending(rows) == \A i \in 1..(Len(rows) - 1) : rows[i].Date < rows[i + 1].Date

\* .sort_index(): the rows in ascending order of date; rows of equal date come
\* in any order (the default sort is not stable)
SortIndex(rows) ==
    IF StrictlyAscending(rows) THEN {rows}
    ELSE {sorted \in {[i \in 1..Len(rows) |-> rows[perm[i]]] :
                         perm \in {f \in [1..Len(rows) -> 1..Len(rows)] :
                                      \A i, j \in 1..Len(rows) : i # j => f[i] # f[j]}} :
             Ascending(sorted)}

\* the frame handed to run_backtest: the prices of the rows, indexed by position
Bars(rows) == [i \in 1..Len(rows) |-> rows[i].Bar]

\* df = get_stock_daily(symbol, start, end) through _fetch_us_stock: the rows
\* without a value are dropped, the rest sorted; a frame left empty raises
Fetch(frames) ==
    /\ pc = "parsed"
    /\ \E rows \in frames :
          /\ raw' = rows
          /\ IF DropNa(rows) = <<>>
             THEN pc' = "failed" /\ df' = df
             ELSE pc' = "fetched" /\ \E sorted \in SortIndex(DropNa(rows)) : df' = Bars(sorted)
    /\ UNCHANGED <<retry, strategy, params, cash, daily_returns, benchmark_values,
                   buy_hold_return, broker, strat, value_array, analyzers, result>>

\* get_stock_daily raises (bad symbol, no data, every retry failed): main returns 400
FetchFails ==
    /\ pc = "parsed"
    /\ pc' = "failed"
    /\ UNCHANGED <<retry, strategy, params, cash, raw, df, daily_returns, benchmark_values,
                   buy_hold_return, broker, strat, value_array, analyzers, result>>

----------------------------------------------------------------------------
(* The benchmark and the set-up of cerebro: run_backtest, lines 33-96 *)

\* df['Close'].pct_change().fillna(0)
PctChange(d) ==
    [i \in 1..Len(d) |->
        IF i = 1 THEN R(0)
        ELSE LET r == FSub(FDiv(R(d[i].Close), R(d[i - 1].Close)), R(1))
             IN  IF IsNaN(r) THEN R(0) ELSE r]

\* potential_splits = daily_returns < -0.5
MutPotentialSplit(r) == FLe(r, Norm(-1, 2))

PotentialSplit(r) == FLt(r, Norm(-1, 2))

expected_ratios == {Norm(-50, 100), Norm(-67, 100), Norm(-75, 100), Norm(-80, 100),
                    Norm(-86, 100), Norm(-90, 100), Norm(-95, 100)}

\* any(abs(split_return - ratio) < 0.05 for ratio in expected_ratios)
IsLikelySplit(r) == \E ratio \in expected_ratios : FLt(FAbs(FSub(r, ratio)), Norm(5, 100))

\* the loop over split_dates: a flagged return that matches a ratio becomes 0
SplitFilter(rs) ==
    [i \in 1..Len(rs) |->
        IF PotentialSplit(rs[i]) /\ IsLikelySplit(rs[i]) THEN R(0) ELSE rs[i]]

RECURSIVE Prod(_, _)
Prod(rs, k) == IF k = 0 THEN R(1) ELSE FMul(Prod(rs, k - 1), FAdd(rs[k], R(1)))

\* benchmark_values: initial_value, then current_value * (1 + daily_return)
RECURSIVE BenchmarkCurve(_, _, _)
BenchmarkCurve(initial_value, rs, k) ==
    IF k = 1 THEN <<initial_value>>
    ELSE LET prev == BenchmarkCurve(initial_value, rs, k - 1)
         IN  Append(prev, FMul(prev[k - 1], FAdd(R(1), rs[k])))

\* buy_hold_return = (daily_returns + 1).prod() - 1
MutBuyHoldReturn(rs) == Prod(rs, Len(rs))

BuyHoldReturn(rs) == FSub(Prod(rs, Len(rs)), R(1))

Benchmark ==
    /\ pc = "fetched"
    /\ LET rs == SplitFilter(PctChange(df))
       IN  /\ daily_returns' = rs
           /\ buy_hold_return' = BuyHoldReturn(rs)
           /\ benchmark_values' = BenchmarkCurve(cash, rs, Len(df))
    /\ broker' = [broker EXCEPT !.cash = cash, !.value = cash]
    /\ pc' = "running"
    /\ UNCHANGED <<retry, strategy, params, cash, raw, df, strat, value_array, analyzers,
                   result>>

----------------------------------------------------------------------------
(* cerebro.broker: backtrader's BackBroker with its defaults *)

\* Position.update: the new size and average price, and how much of the
\* operation closed the position held and how much opened a new one
PositionUpdate(oldsize, oldprice, size, price) ==
    LET newsize == FAdd(oldsize, size)
    IN  IF newsize = R(0)
        THEN [size |-> newsize, price |-> R(0), opened |-> R(0), closed |-> size]
        ELSE IF oldsize = R(0)
        THEN [size |-> newsize, price |-> price, opened |-> size, closed |-> R(0)]
        ELSE IF FLt(R(0), oldsize) = FLt(R(0), size)
        THEN [size |-> newsize,
              price |-> FDiv(FAdd(FMul(oldprice, oldsize), FMul(size, price)), newsize),
              opened |-> size, closed |-> R(0)]
        ELSE IF FLt(R(0), oldsize) = FLt(R(0), newsize)
        THEN [size |-> newsize, price |-> oldprice, opened |-> R(0), closed |-> size]
        ELSE [size |-> newsize, price |-> price, opened |-> newsize,
              closed |-> FNeg(oldsize)]

\* check_submitted: the cash left were the order executed at the price it was
\* created at (the close of the bar that issued it)
CashAfterSubmit(b) ==
    LET u == PositionUpdate(b.size, b.price, b.order.size, b.order.price)
    IN  FSub(FSub(b.cash, FMul(u.closed, b.order.price)), FMul(u.opened, b.order.price))

\* the value the broker reports: cash plus the position at the bar's close
BrokerValue(c, size, bar) == FAdd(c, FMul(size, R(bar.Close)))

\* the opening part of an order executes only if the cash covers it
MutCashCovers(c) == TRUE

CashCovers(c) == ~FLt(c, R(0))

\* BackBroker.next on a bar: the order issued on the previous bar is accepted
\* if the cash covers it at its created price, then executed at this bar's
\* open; what cannot be paid for is rejected (Margin).  Returns the broker and
\* what was executed.
BrokerNext(b, bar) ==
    LET o        == b.order
        p        == R(bar.Open)
        accepted == o.size # R(0) /\ CashCovers(CashAfterSubmit(b))
        u        == PositionUpdate(b.size, b.price, o.size, p)
        pnl      == FMul(FNeg(u.closed), FSub(p, b.price))
        cash1    == FSub(b.cash, FMul(u.closed, p))
        cash2    == FSub(cash1, FMul(u.opened, p))
        opens    == u.opened # R(0) /\ CashCovers(cash2)
        opened   == IF opens THEN u.opened ELSE R(0)
        cashF    == IF opens THEN cash2 ELSE cash1
        execsize == FAdd(u.closed, opened)
        pos      == IF execsize = R(0) THEN [size |-> b.size, price |-> b.price]
                    ELSE PositionUpdate(b.size, b.price, execsize, p)
    IN  IF ~accepted
        THEN [broker |-> [b EXCEPT !.order = NoOrder,
                                   !.value = BrokerValue(b.cash, b.size, bar)],
              closed |-> R(0), opened |-> R(0), pnl |-> R(0),
              rejected |-> o.size # R(0)]
        ELSE [broker |-> [cash |-> cashF, size |-> pos.size, price |-> pos.price,
                          value |-> BrokerValue(cashF, pos.size, bar),
                          order |-> NoOrder,
                          buys |-> b.buys + (IF execsize # R(0) /\ FLt(R(0), o.size)
                                             THEN 1 ELSE 0),
                          sells |-> b.sells + (IF execsize # R(0) /\ FLt(o.size, R(0))
                                               THEN 1 ELSE 0)],
              closed |-> u.closed, opened |-> opened, pnl |-> pnl,
              rejected |-> u.opened # R(0) /\ ~opens]

----------------------------------------------------------------------------
(* The analyzers added by run_backtest *)

\* a trade counts as won when its profit is not negative
TradeWon(pnl) == ~FLt(pnl, R(0))

\* Strategy._addnotification and TradeAnalyzer.notify_trade: the closing part of
\* an execution updates the open trade and closes it when its size returns to
\* 0; the opening part opens a new trade when none is open
NotifyTrade(an, ex) ==
    LET tr       == an.trade
        size1    == FAdd(tr.size, ex.closed)
        pnl1     == FAdd(tr.pnl, ex.pnl)
        isclosed == ex.closed # R(0) /\ tr.size # R(0) /\ size1 = R(0)
        justopen == ex.opened # R(0) /\ size1 = R(0)
        ta       == an.trades
        ta1      == IF isclosed
                    THEN [ta EXCEPT !.open = @ - 1, !.closed = @ + 1,
                                    !.won = @ + (IF TradeWon(pnl1) THEN 1 ELSE 0),
                                    !.lost = @ + (IF TradeWon(pnl1) THEN 0 ELSE 1)]
                    ELSE ta
        ta2      == IF justopen
                    THEN [ta1 EXCEPT !.total = @ + 1, !.open = @ + 1]
                    ELSE ta1
    IN  [an EXCEPT !.trades = ta2,
                   !.trade = [size |-> FAdd(size1, ex.opened),
                              pnl |-> IF justopen THEN R(0) ELSE pnl1]]

\* DrawDown.notify_fund: the value of the bar and the peak so far
NotifyFund(an, value) ==
    [an EXCEPT !.dd.value = value, !.dd.maxvalue = FMax(@, value)]

\* DrawDown.next divides by the peak
DrawDownRaises(an) == an.dd.maxvalue = R(0)

\* DrawDown.next (also called before the minimum period: Analyzer.prenext calls next)
DrawDownNext(an) ==
    LET moneydown == FSub(an.dd.maxvalue, an.dd.value)
        drawdown  == FDiv(FMul(R(100), moneydown), an.dd.maxvalue)
        len       == IF drawdown # R(0) THEN an.dd.len + 1 ELSE 0
    IN  [an EXCEPT !.dd.drawdown = drawdown,
                   !.dd.maxdrawdown = FMax(@, drawdown),
                   !.dd.len = len,
                   !.dd.maxlen = Max(@, len)]

----------------------------------------------------------------------------
(* strategy.py: BaseStrategy *)

\* {"date": ..., "price": self.data.close[0]}; a date is the index of its bar
Signal(t, bar) == [date |-> t, price |-> bar.Close]

\* the result of a call of next: the strategy, the order it issued, whether it raised
Quiet(s) == [strat |-> s, order |-> NoOrder, raised |-> FALSE]

Raise(s) == [strat |-> s, order |-> NoOrder, raised |-> TRUE]

\* BaseStrategy.buy: Strategy.buy returns an order unless the size is 0, and the
\* signal is appended when it returned one
MutBuy(s, t, bar, size) ==
    [strat |-> [s EXCEPT !.buy_signals = Append(@, Signal(t, bar))],
     order |-> [size |-> FAbs(size), price |-> R(bar.Close), req |-> size],
     raised |-> FALSE]

Buy(s, t, bar, size) ==
    IF size = R(0) THEN Quiet(s)
    ELSE [strat |-> [s EXCEPT !.buy_signals = Append(@, Signal(t, bar))],
          order |-> [size |-> FAbs(size), price |-> R(bar.Close), req |-> size],
          raised |-> FALSE]

\* BaseStrategy.sell
Sell(s, t, bar, size) ==
    IF size = R(0) THEN Quiet(s)
    ELSE [strat |-> [s EXCEPT !.sell_signals = Append(@, Signal(t, bar))],
          order |-> [size |-> FNeg(FAbs(size)), price |-> R(bar.Close), req |-> size],
          raised |-> FALSE]

\* BaseStrategy.close: Strategy.close sells the position through self.sell, which
\* is BaseStrategy.sell and appends a signal, and close appends one more
Close(s, b, t, bar) ==
    IF FLt(R(0), b.size)
    THEN LET r == Sell(s, t, bar, b.size)
         IN  [r EXCEPT !.strat.sell_signals = Append(@, Signal(t, bar))]
    ELSE IF FLt(b.size, R(0))
    THEN LET r == Buy(s, t, bar, FAbs(b.size))
         IN  [r EXCEPT !.strat.sell_signals = Append(@, Signal(t, bar))]
    ELSE Quiet(s)

\* BaseStrategy.calculate_position_size; the division raises on a close of 0
calculate_position_size(b, bar) ==
    FDiv(FMul(b.cash, params.position_pct), R(bar.Close))

----------------------------------------------------------------------------
(* cerebro.run(): one bar *)

\* the bar being processed
Now == strat.len + 1

\* the broker once it has processed the bar, before the strategy sees it
Executed == BrokerNext(broker, df[Now])

\* One iteration of the run loop: the broker has executed (ex), the trade and
\* the value are notified, the strategy's next is called (called is what it
\* returned), then the analyzers and the observers are stepped.  An exception
\* ends the run.
CerebroBar(ex, called) ==
    \E nxt \in {called} :
    \E an \in {NotifyFund(NotifyTrade(analyzers, ex), ex.broker.value)} :
        IF nxt.raised \/ DrawDownRaises(an)
        THEN /\ pc' = "failed"
             /\ UNCHANGED <<broker, strat, value_array, analyzers>>
        ELSE /\ pc' = "running"
             /\ broker' = [ex.broker EXCEPT !.order = nxt.order]
             /\ strat' = nxt.strat
             /\ analyzers' = DrawDownNext(an)
             /\ value_array' = Append(value_array, ex.broker.value)

Running == pc = "running" /\ strat.len < Len(df)

Frame == UNCHANGED <<retry, strategy, params, cash, raw, df, daily_returns,
                     benchmark_values, buy_hold_return, result>>

\* cerebro.run instantiates the strategy class before the first bar: what getattr
\* found must be callable, and the module bt is not (TypeError)
InstantiateFails ==
    /\ pc = "running"
    /\ strat.len = 0
    /\ strategy = "bt"
    /\ pc' = "failed"
    /\ UNCHANGED <<broker, strat, value_array, analyzers>>
    /\ Frame

\* BaseStrategy defines no next: bt.Strategy.next does nothing
BaseStrategy_next(s, b, t, bar) == Quiet(s)

BaseStrategyBar ==
    /\ Running
    /\ strategy = "BaseStrategy"
    /\ \E ex \in {Executed} :
          CerebroBar(ex, BaseStrategy_next([strat EXCEPT !.len = Now], ex.broker, Now,
                                           df[Now]))
    /\ Frame

\* BuyHold.next
BuyHold_next(s, b, t, bar) ==
    IF b.size = R(0)
    THEN IF bar.Close = 0 THEN Raise(s)
         ELSE Buy(s, t, bar, calculate_position_size(b, bar))
    ELSE Quiet(s)

BuyHoldBar ==
    /\ Running
    /\ strategy = "BuyHold"
    /\ \E ex \in {Executed} :
          CerebroBar(ex, BuyHold_next([strat EXCEPT !.len = Now], ex.broker, Now, df[Now]))
    /\ Frame

\* day_count % period == 0, for a period other than 0 (Python's modulo by a
\* negative period is 0 exactly when the modulo by its absolute value is)
MutDCA_due(count, period) == (count - 1) % Abs(period) = 0

DCA_due(count, period) == count % Abs(period) = 0

\* DCA.next; the modulo raises on a period of 0, the division on a close of 0
DCA_next(s, b, t, bar) ==
    LET s1 == [s EXCEPT !.day_count = @ + 1]
    IN  IF params.invest_period = 0 THEN Raise(s)
        ELSE IF DCA_due(s1.day_count, params.invest_period)
        THEN IF bar.Close = 0 THEN Raise(s)
             ELSE LET r == Buy(s1, t, bar, FDiv(R(params.invest_amount), R(bar.Close)))
                  IN  [r EXCEPT !.strat.total_invested = @ + params.invest_amount]
        ELSE Quiet(s1)

DCABar ==
    /\ Running
    /\ strategy = "DCA"
    /\ \E ex \in {Executed} :
          CerebroBar(ex, DCA_next([strat EXCEPT !.len = Now], ex.broker, Now, df[Now]))
    /\ Frame

RECURSIVE SumClose(_, _, _)
SumClose(d, from, to) == IF from > to THEN 0 ELSE d[to].Close + SumClose(d, from, to - 1)

\* bt.ind.SMA(period): the mean of the last period closes
SMA(d, t, period) == Norm(SumClose(d, t - period + 1, t), period)

\* fast_ma - slow_ma on bar t
MaDiff(d, t) == FSub(SMA(d, t, params.fast), SMA(d, t, params.slow))

\* the first bar on which both averages exist
MaStart == Max(params.fast, params.slow)

\* NonZeroDifference: the last difference that was not 0 (the first one as it is)
RECURSIVE Nzd(_, _)
Nzd(d, t) ==
    IF t = MaStart \/ MaDiff(d, t) # R(0) THEN MaDiff(d, t) ELSE Nzd(d, t - 1)

\* bt.ind.CrossOver(fast_ma, slow_ma): 1 on an upward cross, -1 on a downward one
MutCrossOver(d, t) ==
    (IF FLe(Nzd(d, t - 1), R(0)) /\ FLe(R(0), MaDiff(d, t)) THEN 1 ELSE 0)
    - (IF FLt(R(0), Nzd(d, t - 1)) /\ FLt(MaDiff(d, t), R(0)) THEN 1 ELSE 0)

CrossOver(d, t) ==
    (IF FLt(Nzd(d, t - 1), R(0)) /\ FLt(R(0), MaDiff(d, t)) THEN 1 ELSE 0)
    - (IF FLt(R(0), Nzd(d, t - 1)) /\ FLt(MaDiff(d, t), R(0)) THEN 1 ELSE 0)

\* the strategy's minimum period: next is first called on that bar
MinPeriod ==
    IF strategy = "SmaCross" THEN MaStart + 1
    ELSE IF strategy = "DualThrust" THEN params.period
    ELSE IF strategy = "SmileCurve" THEN params.lookback_period
    ELSE 1

\* SmaCross.next
SmaCross_next(s, b, t, bar) ==
    IF t < params.slow THEN Quiet(s)
    ELSE IF b.size = R(0) /\ CrossOver(df, t) > 0
    THEN IF bar.Close = 0 THEN Raise(s)
         ELSE Buy(s, t, bar, calculate_position_size(b, bar))
    ELSE IF b.size # R(0) /\ CrossOver(df, t) < 0
    THEN Close(s, b, t, bar)
    ELSE Quiet(s)

\* the indicators are computed over the whole preloaded buffer before the first
\* bar (runonce): one whose minimum period exceeds the length of the buffer
\* writes beyond it (IndexError)
OnceFails ==
    /\ pc = "running"
    /\ strat.len = 0
    /\ Len(df) < MinPeriod
    /\ pc' = "failed"
    /\ UNCHANGED <<broker, strat, value_array, analyzers>>
    /\ Frame

\* Strategy._oncepost: before the minimum period cerebro calls prenext, which
\* does nothing, and from it on next
MutSmaCross_oncepost(s, b, t, bar) == Buy(s, t, bar, R(1))

SmaCross_oncepost(s, b, t, bar) ==
    IF t < MinPeriod THEN Quiet(s) ELSE SmaCross_next(s, b, t, bar)

SmaCrossBar ==
    /\ Running
    /\ strategy = "SmaCross"
    /\ Len(df) >= MinPeriod
    /\ \E ex \in {Executed} :
          CerebroBar(ex, SmaCross_oncepost([strat EXCEPT !.len = Now], ex.broker, Now,
                                           df[Now]))
    /\ Frame

\* the largest and the smallest of a non-empty set of integers
MaxOf(S) == CHOOSE m \in S : \A x \in S : x <= m

MinOf(S) == CHOOSE m \in S : \A x \in S : m <= x

\* the bars of the window of n bars that ends at bar t
Window(t, n) == (t - n + 1)..t

\* DualThrust: hh - ll, the range of the last period bars
ThrustRange(d, t) ==
    MaxOf({d[i].High : i \in Window(t, params.period)})
    - MinOf({d[i].Low : i \in Window(t, params.period)})

\* close[0] > open[0] + k1 * r
ThrustBuy(d, t) ==
    FLt(FAdd(R(d[t].Open), FMul(params.k1, R(ThrustRange(d, t)))), R(d[t].Close))

\* close[0] < open[0] - k2 * r
ThrustSell(d, t) ==
    FLt(R(d[t].Close), FSub(R(d[t].Open), FMul(params.k2, R(ThrustRange(d, t)))))

\* DualThrust.next.  __init__ binds self.close to an indicator, so the exit
\* branch calls that indicator instead of BaseStrategy.close: the call builds a
\* line object in the middle of the run, which the library either accepts
\* (nothing happens) or refuses with an exception; no order is issued.
DualThrust_next(s, b, t, bar) ==
    IF t < params.period THEN {Quiet(s)}
    ELSE IF b.size = R(0) /\ ThrustBuy(df, t)
    THEN {IF bar.Close = 0 THEN Raise(s)
          ELSE Buy(s, t, bar, calculate_position_size(b, bar))}
    ELSE IF b.size # R(0) /\ ThrustSell(df, t)
    THEN {Quiet(s), Raise(s)}
    ELSE {Quiet(s)}

DualThrustBar ==
    /\ Running
    /\ strategy = "DualThrust"
    /\ Len(df) >= MinPeriod
    /\ \E ex \in {Executed} :
       \E called \in DualThrust_next([strat EXCEPT !.len = Now], ex.broker, Now, df[Now]) :
          CerebroBar(ex, called)
    /\ Frame

\* SmileCurve: highest and lowest close of the last lookback_period bars
HighestClose(d, t) == MaxOf({d[i].Close : i \in Window(t, params.lookback_period)})

LowestClose(d, t) == MinOf({d[i].Close : i \in Window(t, params.lookback_period)})

\* price_position: where the close lies in that range, 0.5 when the range is 0
PricePosition(d, t) ==
    IF HighestClose(d, t) - LowestClose(d, t) > 0
    THEN Norm(d[t].Close - LowestClose(d, t), HighestClose(d, t) - LowestClose(d, t))
    ELSE Norm(1, 2)

\* the band is the top one: none of the four tests price_position <= ... holds
TopBand(pos) == ~FLe(pos, Norm(8, 10))

\* the multiplier of the four other bands
MutSmileMultiplier(pos) ==
    IF FLe(pos, Norm(2, 10)) THEN params.max_multiplier
    ELSE IF FLe(pos, Norm(4, 10)) THEN FMul(params.max_multiplier, Norm(8, 10))
    ELSE IF FLe(pos, Norm(6, 10)) THEN Norm(1, 2)
    ELSE R(1)

SmileMultiplier(pos) ==
    IF FLe(pos, Norm(2, 10)) THEN params.max_multiplier
    ELSE IF FLe(pos, Norm(4, 10)) THEN FMul(params.max_multiplier, Norm(8, 10))
    ELSE IF FLe(pos, Norm(6, 10)) THEN R(1)
    ELSE Norm(1, 2)

\* shares_to_sell = self.position.size * sell_ratio, with sell_ratio = 0.1
MutSmileSellSize(size) == FMul(size, R(2))

SmileSellSize(size) == FMul(size, Norm(1, 10))

\* SmileCurve.next; the modulo raises on a period of 0, the division on a close of 0
SmileCurve_next(s, b, t, bar) ==
    IF t < params.lookback_period THEN Quiet(s)
    ELSE LET s1 == [s EXCEPT !.day_count = @ + 1]
         IN  IF params.invest_period = 0 THEN Raise(s)
             ELSE IF ~DCA_due(s1.day_count, params.invest_period) THEN Quiet(s1)
             ELSE IF TopBand(PricePosition(df, t))
             THEN IF FLt(R(0), b.size)
                  THEN Sell(s1, t, bar, SmileSellSize(b.size))
                  ELSE Quiet(s1)
             ELSE IF bar.Close = 0 THEN Raise(s)
             ELSE Buy(s1, t, bar,
                      FDiv(FMul(R(params.base_amount),
                                SmileMultiplier(PricePosition(df, t))),
                           R(bar.Close)))

SmileCurveBar ==
    /\ Running
    /\ strategy = "SmileCurve"
    /\ Len(df) >= MinPeriod
    /\ \E ex \in {Executed} :
          CerebroBar(ex, SmileCurve_next([strat EXCEPT !.len = Now], ex.broker, Now,
                                         df[Now]))
    /\ Frame

\* Grid.next; the division raises on a close of 0
Grid_next(s, b, t, bar) ==
    IF s.last_price = -1 THEN Quiet([s EXCEPT !.last_price = bar.Close])
    ELSE IF bar.Close = 0 THEN Raise(s)
    ELSE LET price      == R(bar.Close)
             trade_size == FDiv(FMul(b.cash, params.position_size), price)
             s1         == [s EXCEPT !.last_price = bar.Close]
         IN  IF b.size = R(0) THEN Buy(s1, t, bar, trade_size)
             ELSE IF FLe(FMul(R(s.last_price), FAdd(R(1), params.step)), price)
             THEN Sell(s1, t, bar, FMin(trade_size, b.size))
             ELSE IF FLe(price, FMul(R(s.last_price), FSub(R(1), params.step)))
             THEN Buy(s1, t, bar, trade_size)
             ELSE Quiet(s)

GridBar ==
    /\ Running
    /\ strategy = "Grid"
    /\ \E ex \in {Executed} :
          CerebroBar(ex, Grid_next([strat EXCEPT !.len = Now], ex.broker, Now, df[Now]))
    /\ Frame

\* (1 + target_growth) ** period_count
RECURSIVE Growth(_)
Growth(k) == IF k = 0 THEN R(1) ELSE FMul(Growth(k - 1), FAdd(R(1), params.target_growth))

\* target_value = initial_target * ((1 + target_growth) ** period_count)
MutTargetValue(k) ==
    FMul(R(params.initial_target), FAdd(R(1), FMul(R(k), params.target_growth)))

TargetValue(k) == FMul(R(params.initial_target), Growth(k))

\* ValueAveraging.next; the modulo raises on a period of 0, the division on a
\* close of 0
ValueAveraging_next(s, b, t, bar) ==
    LET s1 == [s EXCEPT !.day_count = @ + 1]
    IN  IF params.check_period = 0 THEN Raise(s)
        ELSE IF ~DCA_due(s1.day_count, params.check_period) THEN Quiet(s1)
        ELSE LET s2         == [s1 EXCEPT !.period_count = @ + 1]
                 target     == TargetValue(s2.period_count)
                 value_diff == FSub(target, b.value)
             IN  IF FLt(R(0), value_diff)
                 THEN IF bar.Close = 0 THEN Raise(s)
                      ELSE Buy(s2, t, bar, FDiv(value_diff, R(bar.Close)))
                 ELSE IF FLt(value_diff, R(0)) /\ b.size # R(0)
                 THEN IF bar.Close = 0 THEN Raise(s)
                      ELSE LET shares_to_sell ==
                                   FMin(FDiv(FAbs(value_diff), R(bar.Close)), b.size)
                           IN  IF FLt(R(0), shares_to_sell)
                               THEN Sell(s2, t, bar, shares_to_sell)
                               ELSE Quiet(s2)
                 ELSE Quiet(s2)

ValueAveragingBar ==
    /\ Running
    /\ strategy = "ValueAveraging"
    /\ \E ex \in {Executed} :
          CerebroBar(ex, ValueAveraging_next([strat EXCEPT !.len = Now], ex.broker, Now,
                                             df[Now]))
    /\ Frame

----------------------------------------------------------------------------
(* The output record: run_backtest, lines 101-196 *)

\* seq[-k:] in Python: the last k elements, and the whole of seq when k = 0
PySuffix(seq, k) ==
    IF k = 0 \/ k >= Len(seq) THEN seq ELSE SubSeq(seq, Len(seq) - k + 1, Len(seq))

\* seq[i:] in Python
PyFrom(seq, i) ==
    IF i < 0 THEN PySuffix(seq, -i)
    ELSE IF i >= Len(seq) THEN <<>> ELSE SubSeq(seq, i + 1, Len(seq))

\* the observer's buffer after the run: one value per bar, then the NaN the
\* preloaded run leaves behind them
ObserverArray == value_array \o [i \in 1..Len(df) |-> NaN]

\* [float(x) for x in value_series if not pd.isna(x) and x != 0]
KeepValue(x) == ~IsNaN(x) /\ x # R(0)

\* win_rate = won_trades / total_trades if total_trades > 0 else 0
WinRate(ta) == IF ta.total > 0 THEN Norm(ta.won, ta.total) ELSE R(0)

\* strategy_start_idx = len(df) - len(value_series)
MutStartIdx(n, k) == n - k + 1

StartIdx(n, k) == n - k

Report ==
    /\ pc = "running"
    /\ strat.len = Len(df)
    /\ LET kept         == SelectSeq(ObserverArray, KeepValue)
           value_series == IF kept = <<>> THEN <<cash>> ELSE kept
           all_dates    == [i \in 1..Len(df) |-> i]
           dates        == PyFrom(all_dates, StartIdx(Len(df), Len(value_series)))
           min_len      == Min(Len(dates), Len(value_series))
           dates2       == IF Len(dates) # Len(value_series)
                           THEN PySuffix(dates, min_len) ELSE dates
           values2      == IF Len(dates) # Len(value_series)
                           THEN PySuffix(value_series, min_len) ELSE value_series
           max_dd       == analyzers.dd.maxdrawdown
           max_dd_len   == analyzers.dd.maxlen
           has_dd       == max_dd_len > 0 /\ Len(dates2) >= max_dd_len
           fits         == benchmark_values # <<>>
                           /\ Len(benchmark_values) >= Len(values2)
       IN  IF cash = R(0)
           THEN pc' = "failed" /\ result' = result
           ELSE /\ pc' = "done"
                /\ result' =
                     [summary |->
                        [total_return |-> FSub(FDiv(broker.value, cash), R(1)),
                         max_drawdown |-> FDiv(max_dd, R(100)),
                         max_drawdown_length |-> max_dd_len,
                         max_drawdown_start |->
                            IF has_dd THEN dates2[Len(dates2) - max_dd_len + 1] ELSE 0,
                         max_drawdown_end |->
                            IF has_dd THEN dates2[Len(dates2)] ELSE 0,
                         win_rate |-> WinRate(analyzers.trades),
                         buy_hold_return |-> buy_hold_return],
                      chart |->
                        [dates |-> dates2,
                         strategy_values |-> values2,
                         benchmark_values |->
                            IF fits THEN PySuffix(benchmark_values, Len(values2))
                            ELSE benchmark_values,
                         benchmark_dates |->
                            IF fits THEN PySuffix(all_dates, Len(values2))
                            ELSE PyFrom(all_dates, Len(df) - Len(benchmark_values)),
                         buy_points |-> strat.buy_signals,
                         sell_points |-> strat.sell_signals]]
    /\ UNCHANGED <<retry, strategy, params, cash, raw, df, daily_returns, benchmark_values,
                   buy_hold_return, broker, strat, value_array, analyzers>>

----------------------------------------------------------------------------
(* Specifications *)

MaxBars == 3

MaxBarsDCA == 4

MaxBarsSma == 6

MaxBarsThrust == 4

MaxBarsSmile == 5

MaxBarsGrid == 5

MaxBarsVA == 4

\* the bars get_stock_daily may return for a run of the strategy
Series ==
    IF strategy = "BuyHold"
    THEN SeriesUpTo({Bar(o, c) : o \in {1, 2}, c \in {0, 1, 2}}, MaxBars)
    ELSE IF strategy = "DCA" /\ params.invest_period >= 1
    THEN SeriesUpTo({Bar(o, c) : o \in {1, 2}, c \in {0, 1, 2}}, MaxBarsDCA)
    ELSE IF strategy = "SmaCross" /\ params.fast = 1
    THEN SeriesUpTo({Bar(1, 1), Bar(1, 2), Bar(2, 1), Bar(0, 2)}, MaxBarsSma)
    ELSE IF strategy = "SmaCross"
    THEN SeriesUpTo({Bar(1, 1), Bar(1, 2), Bar(2, 1)}, MaxBarsSma)
    ELSE IF strategy = "DualThrust"
    THEN SeriesUpTo({Bar(1, 1), Bar(1, 2), Bar(2, 1)}, MaxBarsThrust)
    ELSE IF strategy = "SmileCurve"
    THEN SeriesUpTo({Bar(c, c) : c \in 1..4}, MaxBarsSmile)
    ELSE IF strategy = "Grid"
    THEN SeriesUpTo({Bar(c, c) : c \in 1..3}, MaxBarsGrid)
    ELSE IF strategy = "ValueAveraging"
    THEN SeriesUpTo({Bar(c, c) : c \in {1, 2, 4}}, MaxBarsVA)
    ELSE SeriesUpTo({Bar(1, 1), Bar(1, 2)}, MaxBars)

FetchSeries == Fetch({Provider(d) : d \in Series})

Strategies ==
    {[name |-> "BuyHold", params |-> [position_pct |-> pct]] :
        pct \in {R(1), Norm(1, 2)}}
    \cup {[name |-> "DCA",
           params |-> [position_pct |-> R(1), invest_period |-> p, invest_amount |-> 60]] :
        p \in {-1, 0, 1, 2, 3}}
    \cup {[name |-> "SmaCross",
           params |-> [position_pct |-> R(1), fast |-> f, slow |-> f + 1]] :
        f \in {1, 2}}
    \cup {[name |-> n, params |-> [position_pct |-> R(1)]] :
        n \in {"BaseStrategy", "bt", "Strategy"}}
    \cup {[name |-> "DualThrust",
           params |-> [position_pct |-> R(1), k1 |-> Norm(1, 2), k2 |-> Norm(1, 2),
                       period |-> p]] :
        p \in {1, 2}}
    \cup {[name |-> "SmileCurve",
           params |-> [position_pct |-> R(1), lookback_period |-> 3, invest_period |-> p,
                       base_amount |-> 10, max_multiplier |-> R(3)]] :
        p \in {1, 2}}
    \cup {[name |-> "SmileCurve",
           params |-> [position_pct |-> R(1), lookback_period |-> 3, invest_period |-> 1,
                       base_amount |-> 10, max_multiplier |-> R(1)]]}
    \cup {[name |-> "Grid",
           params |-> [position_pct |-> R(1), step |-> Norm(5, 100),
                       position_size |-> ps]] :
        ps \in {Norm(1, 2), R(1)}}
    \cup {[name |-> "ValueAveraging",
           params |-> [position_pct |-> R(1), check_period |-> p,
                       target_growth |-> Norm(1, 10), initial_target |-> 150]] :
        p \in {1, 2}}

Init == InitWith(Strategies, {R(100)})

Next == GetStrategy \/ FetchSeries \/ FetchFails \/ Benchmark \/ InstantiateFails
        \/ OnceFails \/ BaseStrategyBar \/ BuyHoldBar \/ DCABar \/ SmaCrossBar
        \/ DualThrustBar \/ SmileCurveBar \/ GridBar \/ ValueAveragingBar \/ Report

Spec == Init /\ [][Next]_vars

----------------------------------------------------------------------------
(* Specification of the benchmark alone *)

FetchBench == Fetch({Provider(d) : d \in BenchSeries})

InitBench ==
    InitWith({[name |-> "BuyHold", params |-> [position_pct |-> R(1)]]}, {R(100)})

NextBench == GetStrategy \/ FetchBench \/ FetchFails \/ Benchmark

SpecBench == InitBench /\ [][NextBench]_vars

----------------------------------------------------------------------------
(* Specification of the fetcher: frames as a provider may return them *)

MaxRawRows == 2

\* rows of any date, with or without a missing value, in any order
RawFrames ==
    SeriesUpTo({Row(d, Bar(c, c), na) : d \in {1, 2}, c \in {1, 2}, na \in BOOLEAN},
               MaxRawRows)

FetchRaw == Fetch(RawFrames)

InitFetch ==
    InitWith({[name |-> "BuyHold", params |-> [position_pct |-> R(1)]]}, {R(100)})

NextFetch == GetStrategy \/ FetchRaw \/ FetchFails \/ Benchmark \/ BuyHoldBar \/ Report

SpecFetch == InitFetch /\ [][NextFetch]_vars

----------------------------------------------------------------------------
(* data_fetcher.get_stock_daily: validation of the symbol and the retry loop *)

Digits == {"0", "1", "2", "3", "4", "5", "6", "7", "8", "9"}

\* the characters of [A-Z0-9.-]
UsChars == Digits \cup {"A", "L", "P", "S", "H", "K", "Z", "B", "J", ".", "-"}

\* str.endswith
EndsWith(str, suffix) ==
    /\ Len(str) >= Len(suffix)
    /\ SubSeq(str, Len(str) - Len(suffix) + 1, Len(str)) = suffix

IsDigit(code) == code # <<>> /\ \A i \in 1..Len(code) : code[i] \in Digits

\* symbol[:-3]
Code(symbol) == SubSeq(symbol, 1, Len(symbol) - 3)

AShare(symbol) ==
    \/ EndsWith(symbol, <<".", "S", "H">>)
    \/ EndsWith(symbol, <<".", "S", "Z">>)
    \/ EndsWith(symbol, <<".", "B", "J">>)

HShare(symbol) == EndsWith(symbol, <<".", "H", "K">>)

_validate_symbol_format(symbol) ==
    IF AShare(symbol) THEN IsDigit(Code(symbol)) /\ Len(Code(symbol)) = 6
    ELSE IF HShare(symbol) THEN IsDigit(Code(symbol)) /\ Len(Code(symbol)) >= 4
    ELSE /\ Len(symbol) \in 1..10
         /\ \A i \in 1..Len(symbol) : symbol[i] \in UsChars

\* _fetch_a_stock: a six-digit code that starts with 5 is taken for an ETF and
\* raises before the provider is asked
RefusedAsETF(symbol) ==
    AShare(symbol) /\ Code(symbol)[1] = "5" /\ Len(Code(symbol)) = 6

\* if attempt < max_retries - 1: sleep
MutMayWait(attempt, max_retries) == attempt < max_retries

MayWait(attempt, max_retries) == attempt < max_retries - 1

\* retry_delay *= 1.5
Backoff(delay) == FMul(delay, Norm(3, 2))

Symbols ==
    {<<"6", "0", "0", "5", "1", "9", ".", "S", "H">>,
     <<"5", "1", "0", "3", "0", "0", ".", "S", "H">>,
     <<"0", "0", "0", "0", "0", "1", ".", "S", "Z">>,
     <<"6", "0", "0", "5", "1", ".", "S", "H">>,
     <<"0", "0", "7", "0", "0", ".", "H", "K">>,
     <<"A", "A", "P", "L">>,
     <<"S", "P", "-", "Z">>,
     <<"A", "A", "_", "L">>}

MaxRetries == 3

\* the dates a caller may give, as day numbers
MaxDay == 2

\* lines 47-51: the parsed bounds, exchanged when start_date >= end_date
ParsedBounds(start, end) == IF start >= end THEN <<end, start>> ELSE <<start, end>>

\* lines 64-71: the bounds each _fetch_* function is called with
FetchBounds(call) == <<call.start, call.end>>

\* get_stock_daily(symbol, start, end, max_retries, retry_delay) is called;
\* attempt is the loop variable, slept the arguments of time.sleep so far,
\* asked the bounds of the last fetch
InitDaily ==
    /\ pc = "parsed"
    /\ strategy = "BuyHold"
    /\ params = [position_pct |-> R(1)]
    /\ cash = R(100)
    /\ raw = <<>>
    /\ df = <<>>
    /\ daily_returns = <<>>
    /\ benchmark_values = <<>>
    /\ buy_hold_return = R(0)
    /\ broker = EmptyBroker
    /\ strat = EmptyStrat
    /\ value_array = <<>>
    /\ analyzers = EmptyAnalyzers
    /\ result = None
    /\ \E symbol \in Symbols, max_retries \in 0..MaxRetries, delay \in {R(1), R(2)},
          start \in 1..MaxDay, end \in 1..MaxDay :
          retry = [status |-> "called", symbol |-> symbol, max_retries |-> max_retries,
                   delay0 |-> delay, retry_delay |-> delay, attempt |-> 0,
                   slept |-> <<>>, start |-> start, end |-> end,
                   start_date |-> 0, end_date |-> 0, asked |-> <<>>]

Main == <<pc, strategy, params, cash, raw, df, daily_returns, benchmark_values,
          buy_hold_return, broker, strat, value_array, analyzers, result>>

\* lines 35-56: the bounds are parsed and put in order, and a symbol of no
\* supported format raises ValueError
Validate ==
    /\ retry.status = "called"
    /\ retry' = [retry EXCEPT !.status = IF _validate_symbol_format(retry.symbol)
                                         THEN "loop" ELSE "ValueError",
                               !.start_date = ParsedBounds(retry.start, retry.end)[1],
                               !.end_date = ParsedBounds(retry.start, retry.end)[2]]
    /\ UNCHANGED Main

\* an iteration of the loop whose fetch returns a frame: it is returned at once
AttemptReturns ==
    /\ retry.status = "loop"
    /\ retry.attempt < retry.max_retries
    /\ ~RefusedAsETF(retry.symbol)
    /\ retry' = [retry EXCEPT !.status = "returned", !.asked = FetchBounds(retry)]
    /\ UNCHANGED Main

\* an iteration whose fetch raises: the exception is kept, and unless this was
\* the last iteration the loop sleeps and lengthens the delay
AttemptRaises ==
    /\ retry.status = "loop"
    /\ retry.attempt < retry.max_retries
    /\ retry' = IF MayWait(retry.attempt, retry.max_retries)
                THEN [retry EXCEPT !.attempt = @ + 1,
                                   !.asked = FetchBounds(retry),
                                   !.slept = Append(@, retry.retry_delay),
                                   !.retry_delay = Backoff(@)]
                ELSE [retry EXCEPT !.attempt = @ + 1, !.asked = FetchBounds(retry)]
    /\ UNCHANGED Main

\* the loop is over without a return: raise RuntimeError
Exhausted ==
    /\ retry.status = "loop"
    /\ retry.attempt >= retry.max_retries
    /\ retry' = [retry EXCEPT !.status = "RuntimeError"]
    /\ UNCHANGED Main

NextDaily == Validate \/ AttemptReturns \/ AttemptRaises \/ Exhausted

SpecDaily == InitDaily /\ [][NextDaily]_vars

----------------------------------------------------------------------------
(* Claims about the benchmark *)

Closes(i) == df[i].Close

\* the return of bar i as the claims state it: close[i] / close[i-1] - 1
RawReturn(i) ==
    IF Closes(i - 1) = 0 THEN (IF Closes(i) = 0 THEN R(0) ELSE Inf)
    ELSE Norm(Closes(i) - Closes(i - 1), Closes(i - 1))

\* C2: a daily return equal to that of an exact n:1 split (1/n - 1, n in 2..20,
\* -0.50 included) is replaced by 0, so the benchmark value of that day equals
\* the value of the previous day.
C2_ExactSplitIsZeroed ==
    pc = "running" =>
        \A i \in 2..Len(df) : \A n \in 2..20 :
            (Closes(i) > 0 /\ Closes(i - 1) = n * Closes(i)) =>
                /\ daily_returns[i] = R(0)
                /\ benchmark_values[i] = benchmark_values[i - 1]

\* bar i is flagged: its return is below -0.5
Flagged(i) == Closes(i - 1) > 0 /\ 2 * Closes(i) < Closes(i - 1)

\* the return of bar i is within 0.05 of k/100 below zero
NearRatio(i, k) ==
    Abs(100 * (Closes(i) - Closes(i - 1)) + k * Closes(i - 1)) < 5 * Closes(i - 1)

ListedRatios == {50, 67, 75, 80, 86, 90, 95}

\* C3: a daily return is set to 0 only if it is flagged (below -0.5) and within
\* 0.05 of a listed split ratio; every other return enters the benchmark curve
\* unmodified.
C3_OnlyFlaggedNearRatioIsZeroed ==
    pc = "running" =>
        \A i \in 2..Len(df) :
            IF Flagged(i) /\ \E k \in ListedRatios : NearRatio(i, k)
            THEN daily_returns[i] = R(0)
            ELSE /\ daily_returns[i] = RawReturn(i)
                 /\ benchmark_values[i] =
                        FMul(benchmark_values[i - 1], FAdd(R(1), RawReturn(i)))

\* a return of -0.60 (5 -> 2) reached the curve as it was
C3_Witness ==
    /\ pc = "running"
    /\ Len(df) = 2 /\ Closes(1) = 5 /\ Closes(2) = 2
    /\ daily_returns[2] = Norm(-3, 5)
    /\ benchmark_values = <<R(100), R(40)>>

----------------------------------------------------------------------------
(* Claims about the run *)

Done == pc = "done"

Chart == result.chart

Summary == result.summary

Last(seq) == seq[Len(seq)]

\* C1: for every run that completes, chart.dates and chart.strategy_values have
\* the same length, and that length is at most the number of bars of the series.
C1_DatesMatchValues ==
    Done => /\ Len(Chart.dates) = Len(Chart.strategy_values)
            /\ Len(Chart.dates) <= Len(df)

\* a completed run of three bars in which one value was filtered out
C1_Witness ==
    /\ Done
    /\ Len(df) = 3
    /\ Len(Chart.strategy_values) = 2
    /\ Len(Chart.dates) = 2

\* C4: BuyHold with position_pct = 1.0 records exactly one buy signal, dated at
\* the first bar, and no sell signal over the whole run.
C4_BuyHoldBuysOnce ==
    (Done /\ strategy = "BuyHold" /\ params.position_pct = R(1)) =>
        /\ Len(Chart.buy_points) = 1
        /\ Chart.buy_points[1].date = 1
        /\ Chart.sell_points = <<>>

\* C5: DCA records buy signals exactly on bars p, 2p, 3p, ... (floor(N/p) of
\* them), never a sell signal, and total_invested is invest_amount times the
\* number of buy signals.
C5_DCASchedule ==
    (Done /\ strategy = "DCA" /\ params.invest_period >= 1) =>
        LET p == params.invest_period
            k == Len(df) \div p
        IN  /\ Len(Chart.buy_points) = k
            /\ \A j \in 1..k : Chart.buy_points[j].date = j * p
            /\ Chart.sell_points = <<>>
            /\ strat.total_invested = params.invest_amount * k

\* two purchases, on bars 2 and 4, the second one not covered by the cash
C5_Witness ==
    /\ Done
    /\ strategy = "DCA"
    /\ params.invest_period = 2
    /\ Len(df) = 4
    /\ Len(Chart.buy_points) = 2
    /\ strat.total_invested = 120

ConstantCloses == \A i \in 1..Len(df) : df[i].Close = df[1].Close

\* C6: SmaCross on a series whose closes are all equal never observes a
\* crossover: no buy signal and no sell signal on any bar.
C6_FlatSeriesNeverCrosses ==
    (strategy = "SmaCross" /\ pc \in {"running", "done"} /\ ConstantCloses) =>
        /\ strat.buy_signals = <<>>
        /\ strat.sell_signals = <<>>

\* fast = 2, slow = 3 over six equal closes, run to the end
C6_Witness ==
    /\ Done
    /\ strategy = "SmaCross"
    /\ params.fast = 2 /\ params.slow = 3
    /\ Len(df) = 6
    /\ ConstantCloses
    /\ Chart.buy_points = <<>>
    /\ Chart.sell_points = <<>>

C8_MaxDrawdownInUnitInterval ==
    Done => /\ FLe(R(0), Summary.max_drawdown)
            /\ FLe(Summary.max_drawdown, R(1))

\* a run in which a buy was rejected for lack of cash and the value fell
C8_Witness ==
    /\ Done
    /\ strategy = "DCA"
    /\ FLt(broker.cash, R(60))
    /\ Len(Chart.buy_points) >= 3
    /\ FLt(R(0), Summary.max_drawdown)

\* C9: summary.win_rate is won trades over closed trades, lies in [0, 1], and is
\* 0 when no trade was closed: a trade still open at the end does not lower it.
C9_WinRateOverClosedTrades ==
    Done =>
        LET ta == analyzers.trades
        IN  /\ Summary.win_rate =
                  (IF ta.closed > 0 THEN Norm(ta.won, ta.closed) ELSE R(0))
            /\ FLe(R(0), Summary.win_rate)
            /\ FLe(Summary.win_rate, R(1))

\* C10: the benchmark curve of the output starts at the initial cash, and every
\* later value is the previous one times (1 + adjusted return of its bar).
C10_ChartBenchmarkStartsAtCash ==
    Done =>
        /\ Chart.benchmark_values[1] = cash
        /\ \A i \in 2..Len(Chart.benchmark_values) :
              Chart.benchmark_values[i] =
                  FMul(Chart.benchmark_values[i - 1],
                       FAdd(R(1), daily_returns[Chart.benchmark_dates[i]]))

----------------------------------------------------------------------------
(* Claims about main and its inputs *)

Returned == pc \in {"done", "failed"}

\* what main returns: 200 and the result of run_backtest merged into the body,
\* or, from the except clause, 400 and the message of the exception
MutResponse ==
    IF pc = "done"
    THEN [statusCode |-> 200, body |-> [code |-> 0, msg |-> "ok", chart |-> result.chart]]
    ELSE [statusCode |-> 400, body |-> [code |-> 1, msg |-> "error"]]

Response ==
    IF pc = "done"
    THEN [statusCode |-> 200,
          body |-> [code |-> 0, msg |-> "ok", summary |-> result.summary,
                    chart |-> result.chart]]
    ELSE [statusCode |-> 400, body |-> [code |-> 1, msg |-> "error"]]

\* the response is one of the two the claim allows
FullOrNothing ==
    \/ /\ Response.statusCode = 200
       /\ Response.body.code = 0
       /\ {"summary", "chart"} \subseteq DOMAIN Response.body
    \/ /\ Response.statusCode = 400
       /\ Response.body.code = 1
       /\ "msg" \in DOMAIN Response.body
       /\ {"summary", "chart"} \cap DOMAIN Response.body = {}

\* C11: main never raises: whatever was raised on the way, the call ends with a
\* response, which is either 200 with code 0 and both summary and chart, or 400
\* with code 1, a message and neither of them; a failed run has produced no
\* result.
C11_MainAlwaysResponds ==
    /\ pc \in {"event", "parsed", "fetched", "running", "done", "failed"}
    /\ pc = "failed" => result = None
    /\ Returned => FullOrNothing

\* a run that failed in the middle of the series: a strategy raised on its
\* second bar or later
C11_Witness ==
    /\ pc = "failed"
    /\ strat.len >= 1
    /\ Len(value_array) >= 1
    /\ result = None

\* C12: a strategy name that is not one of the listed variants is rejected
\* before any data is fetched and before any bar is processed.
C12_UnlistedStrategyRejected ==
    strategy \notin Variants =>
        /\ pc \in {"event", "failed"}
        /\ raw = <<>>
        /\ df = <<>>
        /\ strat.len = 0

\* C13: an out-of-range parameter (here invest_period <= 0) fails before the run
\* starts: no bar is processed and no order is issued.
C13_OutOfRangeFailsBeforeRun ==
    (strategy = "DCA" /\ params.invest_period <= 0) =>
        /\ pc # "done"
        /\ strat.len = 0
        /\ strat.buy_signals = <<>>
        /\ broker.order = NoOrder

\* the DataSeries invariants on the rows of the provider: dates strictly
\* ascending (so no duplicate) and no missing value
WellFormed(rows) == StrictlyAscending(rows) /\ \A i \in 1..Len(rows) : ~rows[i].isna

\* C14: a bar sequence that violates the DataSeries invariants makes the run
\* fail: it is never reordered, de-duplicated or stripped of rows and simulated.
C14_BadSeriesFails ==
    (raw # <<>> /\ ~WellFormed(raw)) =>
        /\ pc # "done"
        /\ strat.len = 0

\* C15: a non-empty series shorter than the warm-up window (SmaCross: slow
\* bars) never aborts the run; it completes with no buy or sell point,
\* total_return 0, win_rate 0, no drawdown dates and at most one value.
C15_ShortSeriesCompletes ==
    (strategy = "SmaCross" /\ df # <<>> /\ Len(df) < params.slow) =>
        /\ pc # "failed"
        /\ Done =>
              /\ Chart.buy_points = <<>>
              /\ Chart.sell_points = <<>>
              /\ Summary.total_return = R(0)
              /\ Summary.win_rate = R(0)
              /\ Summary.max_drawdown_start = 0
              /\ Summary.max_drawdown_end = 0
              /\ Len(Chart.strategy_values) <= 1

\* the provider returned rows, none of which is left for the series
BenchmarkUnavailable == raw # <<>> /\ DropNa(raw) = <<>>

\* C16: when the benchmark series is empty the run does not fail: it completes
\* with empty benchmark_values and benchmark_dates.
C16_EmptyBenchmarkDegrades ==
    BenchmarkUnavailable =>
        /\ pc # "failed"
        /\ Done => Chart.benchmark_values = <<>> /\ Chart.benchmark_dates = <<>>

----------------------------------------------------------------------------
(* Claims about orders, signals and the value history *)

\* C17: signals and executed orders correspond one to one: at the end of a run
\* there are as many buy signals as executed buys and as many sell signals as
\* executed sells.
C17_SignalsMatchExecutions ==
    Done =>
        /\ Len(Chart.buy_points) = broker.buys
        /\ Len(Chart.sell_points) = broker.sells

\* C18: no order of a requested size <= 0 is ever issued, recorded as a signal
\* or executed: whenever a step adds a signal or leaves an order pending, the
\* size asked for is positive, also when the cash is zero.
C18_NoOrderOfNonPositiveSize ==
    [][(\/ strat'.buy_signals # strat.buy_signals
        \/ strat'.sell_signals # strat.sell_signals
        \/ broker'.order # NoOrder)
       => FLt(R(0), broker'.order.req)]_vars

\* flat, out of cash, and on an upward cross: the size asked for is 0 and the
\* step neither issues an order nor records a signal
C18_Witness ==
    /\ pc = "running"
    /\ strategy = "SmaCross"
    /\ strat.len >= MinPeriod
    /\ broker.cash = R(0)
    /\ broker.size = R(0)
    /\ broker.order = NoOrder
    /\ CrossOver(df, strat.len) > 0
    /\ Len(strat.buy_signals) = 1

C20_ValuesAlignedWithDates ==
    Done =>
        /\ Chart.dates[1] = 1
        /\ \A i \in 1..Len(Chart.dates) :
              /\ Chart.dates[i] = Len(df) - Len(Chart.dates) + i
              /\ Chart.strategy_values[i] = value_array[Chart.dates[i]]

----------------------------------------------------------------------------
(* Claims about the drawdown dates, the execution of orders and the benchmark *)

\* the highest portfolio value of bars 1..e
RECURSIVE PeakUpTo(_)
PeakUpTo(e) == IF e = 1 THEN value_array[1] ELSE FMax(PeakUpTo(e - 1), value_array[e])

\* C22: max_drawdown_start and max_drawdown_end bound the bars from the peak to
\* the trough of the maximum drawdown, start lying max_drawdown_length bars
\* before end; both are "N/A" (0 here) exactly when the length is 0 or the
\* value history is shorter than the length.
C22_DrawdownDatesBoundPeakToTrough ==
    Done =>
        LET len == Summary.max_drawdown_length
            s   == Summary.max_drawdown_start
            e   == Summary.max_drawdown_end
        IN  IF len = 0 \/ Len(Chart.dates) < len
            THEN s = 0 /\ e = 0
            ELSE /\ s \in 1..Len(df)
                 /\ e \in 1..Len(df)
                 /\ e - s = len
                 /\ value_array[s] = PeakUpTo(e)
                 /\ FDiv(FSub(PeakUpTo(e), value_array[e]), PeakUpTo(e))
                       = Summary.max_drawdown

\* C23: an order issued on bar t is executed within the same step at the close
\* of bar t: no order is left pending after a step, and the price of the
\* position is the price recorded in a signal.
C23_OrdersFillOnTheirBar ==
    pc \in {"running", "done"} =>
        /\ broker.order = NoOrder
        /\ (strategy = "BuyHold" /\ broker.size # R(0)) =>
              \E j \in 1..Len(strat.buy_signals) :
                  broker.price = R(strat.buy_signals[j].price)

\* C24: the benchmark of the output is independent of the portfolio.  Runs
\* over the same series and cash include one that never trades, whose output
\* carries the whole curve, so independence says that every completed run
\* returns the whole curve of the series, on all its dates.
C24_BenchmarkIndependentOfPortfolio ==
    Done =>
        /\ Chart.benchmark_values =
              BenchmarkCurve(cash, SplitFilter(PctChange(df)), Len(df))
        /\ Chart.benchmark_dates = [i \in 1..Len(df) |-> i]

\* C28: for the variants sized by calculate_position_size an executed entry buy
\* costs exactly cash * position_pct, and the cash is never negative.
C28_EntryCostsCashTimesPct ==
    /\ [](~FLt(broker.cash, R(0)))
    /\ [][(strategy \in {"BuyHold", "SmaCross"} /\ broker'.buys = broker.buys + 1)
          => broker'.cash = FSub(broker.cash, FMul(broker.cash, params.position_pct))]_vars

\* C29: a buy of a fixed-amount variant (DCA) whose cost exceeds the cash is
\* executed all the same: every order DCA leaves to the broker is executed on
\* the step that follows, whatever the cash.
C29_UncoveredBuyExecutes ==
    [][(strategy = "DCA" /\ broker.order # NoOrder /\ strat'.len = strat.len + 1)
       => broker'.buys = broker.buys + 1]_vars

----------------------------------------------------------------------------
(* Claims about the variants *)

\* C21: in every reachable state of a run, for every variant, the position size
\* is >= 0: no sell or close ever exceeds the size held.
C21_PositionNeverNegative ==
    /\ ~FLt(broker.size, R(0))
    /\ FLt(broker.order.size, R(0)) => FLe(FAbs(broker.order.size), broker.size)

\* a partial sale has been executed: part of the position is left
C21_Witness ==
    /\ pc = "running"
    /\ strategy \in {"Grid", "ValueAveraging", "SmileCurve"}
    /\ broker.sells >= 1
    /\ FLt(R(0), broker.size)

\* the bar of the step is one on which DualThrust's exit condition holds
ThrustExit(t) ==
    /\ t >= params.period
    /\ FLt(R(df[t].Close),
           FSub(R(df[t].Open), FMul(params.k2, R(ThrustRange(df, t)))))

\* C27: DualThrust, while holding a position, exits on any bar after warm-up
\* whose close is below open - k2 * range: the position is closed (the order
\* that sells all of it is issued) and exactly one sell signal is recorded.
C27_DualThrustExits ==
    [][(/\ strategy = "DualThrust"
        /\ strat'.len = strat.len + 1
        /\ FLt(R(0), broker'.size)
        /\ ThrustExit(strat'.len))
       => /\ broker'.order.size = FNeg(broker'.size)
          /\ Len(strat'.sell_signals) = Len(strat.sell_signals) + 1]_vars

\* the bar is one SmileCurve acts on: the invest_period-th, counted from the
\* first bar after warm-up
SmileActs(t) ==
    /\ t >= params.lookback_period
    /\ (t - params.lookback_period + 1) % params.invest_period = 0

\* the order a buy of amount / close shares leaves, and the one a sale leaves
BuyOrder(amount, t) ==
    [size |-> FDiv(amount, R(df[t].Close)), price |-> R(df[t].Close),
     req |-> FDiv(amount, R(df[t].Close))]

SellOrder(size, t) == [size |-> FNeg(size), price |-> R(df[t].Close), req |-> size]

\* the multiplier the claim gives for a price position below the top band
BandMultiplier(pos) ==
    IF FLe(pos, Norm(1, 5)) THEN params.max_multiplier
    ELSE IF FLe(pos, Norm(2, 5)) THEN FMul(Norm(4, 5), params.max_multiplier)
    ELSE IF FLe(pos, Norm(3, 5)) THEN R(1)
    ELSE Norm(1, 2)

\* C30: SmileCurve acts only on every invest_period-th bar counted from the end
\* of warm-up; in the top band (price position > 80%) it never buys and sells
\* exactly 10% of the position if one is held; in every other band it buys
\* base_amount * multiplier / close with the multiplier of the band, a zero
\* range counting as position 0.5.
C30_SmileCurveBands ==
    [][(strategy = "SmileCurve" /\ strat'.len = strat.len + 1) =>
        LET t   == strat'.len
            pos == PricePosition(df, t)
        IN  IF ~SmileActs(t)
            THEN /\ broker'.order = NoOrder
                 /\ strat'.buy_signals = strat.buy_signals
                 /\ strat'.sell_signals = strat.sell_signals
            ELSE IF FLt(Norm(4, 5), pos)
            THEN /\ strat'.buy_signals = strat.buy_signals
                 /\ IF FLt(R(0), broker'.size)
                    THEN /\ broker'.order = SellOrder(FMul(Norm(1, 10), broker'.size), t)
                         /\ strat'.sell_signals = Append(strat.sell_signals, Signal(t, df[t]))
                    ELSE /\ broker'.order = NoOrder
                         /\ strat'.sell_signals = strat.sell_signals
            ELSE /\ broker'.order =
                        BuyOrder(FMul(R(params.base_amount), BandMultiplier(pos)), t)
                 /\ strat'.buy_signals = Append(strat.buy_signals, Signal(t, df[t]))
                 /\ strat'.sell_signals = strat.sell_signals]_vars

\* SmileCurve has bought in a middle band, holds the shares, and on a bar of
\* the top band has issued the sale of a tenth of them
C30_Witness ==
    /\ pc = "running"
    /\ strategy = "SmileCurve"
    /\ Len(strat.buy_signals) >= 1
    /\ Len(strat.sell_signals) = 1
    /\ FLt(R(0), broker.size)
    /\ broker.order.size = FNeg(FMul(Norm(1, 10), broker.size))
    /\ \E j \in 1..Len(strat.buy_signals) :
          PricePosition(df, strat.buy_signals[j].date) = Norm(2, 3)

----------------------------------------------------------------------------
(* Claims about get_stock_daily *)

RECURSIVE Pow15(_)
Pow15(k) == IF k = 0 THEN R(1) ELSE FMul(Pow15(k - 1), Norm(3, 2))

\* C25: get_stock_daily with a valid symbol makes at most max_retries attempts,
\* returns at the first attempt that succeeds, raises RuntimeError exactly when
\* every attempt failed, waits retry_delay * 1.5^(k-1) before the k-th retry and
\* does not wait after the last failed attempt.
C25_RetrySchedule ==
    retry.status \in {"loop", "returned", "RuntimeError"} =>
        /\ retry.attempt <= retry.max_retries
        /\ retry.status = "returned" => retry.attempt + 1 <= retry.max_retries
        /\ retry.status = "RuntimeError" => retry.attempt = retry.max_retries
        /\ Len(retry.slept) = Min(retry.attempt, Max(retry.max_retries - 1, 0))
        /\ \A k \in 1..Len(retry.slept) :
              retry.slept[k] = FMul(retry.delay0, Pow15(k - 1))

\* three attempts failed: two waits, of 2 and 3 seconds, none after the third
C25_Witness ==
    /\ retry.status = "RuntimeError"
    /\ retry.max_retries = 3
    /\ retry.attempt = 3
    /\ retry.delay0 = R(2)
    /\ retry.slept = <<R(2), R(3)>>

ETF510300 == <<"5", "1", "0", "3", "0", "0", ".", "S", "H">>

\* C26: a well-formed A-share ETF symbol such as 510300.SH passes validation
\* and is fetched like any other A-share symbol: an attempt for it can return
\* data.
C26_ETFSymbolIsFetched ==
    retry.symbol = ETF510300 =>
        /\ retry.status # "ValueError"
        /\ (retry.status = "loop" /\ retry.attempt < retry.max_retries)
              => ENABLED AttemptReturns

\* C36: when get_stock_daily is called with a start later than the end, the
\* two bounds are exchanged and the data is fetched for the interval from the
\* earlier to the later date.
C36_BoundsSwappedForFetch ==
    (retry.status = "returned" /\ retry.start > retry.end) =>
        retry.asked = <<retry.end, retry.start>>

----------------------------------------------------------------------------
(* Claims about buy_hold_return and the signals of the variants *)

\* the product of (1 + r) over the returns rs[1..k]
RECURSIVE ProductOfGrowth(_, _)
ProductOfGrowth(rs, k) ==
    IF k = 0 THEN R(1) ELSE FMul(FAdd(R(1), rs[k]), ProductOfGrowth(rs, k - 1))

\* C34: buy_hold_return is the product of (1 + adjusted daily return) over the
\* full series minus 1, with the split filter of the benchmark, so the last
\* value of the full benchmark curve is initial cash * (1 + buy_hold_return);
\* the summary carries that value.
C34_BuyHoldReturnMatchesBenchmark ==
    /\ pc \in {"running", "done"} =>
          /\ buy_hold_return =
                FSub(ProductOfGrowth(daily_returns, Len(daily_returns)), R(1))
          /\ Len(benchmark_values) = Len(df)
          /\ Last(benchmark_values) = FMul(cash, FAdd(R(1), buy_hold_return))
    /\ Done => Summary.buy_hold_return = buy_hold_return

\* closes 4, 1, 2: the fall of 75% is taken for a split and left out, the
\* return is +100% and the curve ends at twice the cash
C34_Witness ==
    /\ Done
    /\ Len(df) = 3
    /\ Closes(1) = 4 /\ Closes(2) = 1 /\ Closes(3) = 2
    /\ daily_returns = <<R(0), R(0), R(1)>>
    /\ Summary.buy_hold_return = R(1)
    /\ Last(benchmark_values) = R(200)

\* the signals of a run in date order: "B" and "S", a buy before the sells of
\* its bar
RECURSIVE Merged(_, _)
Merged(buys, sells) ==
    IF buys = <<>> THEN [i \in 1..Len(sells) |-> "S"]
    ELSE IF sells = <<>> THEN [i \in 1..Len(buys) |-> "B"]
    ELSE IF buys[1].date <= sells[1].date
    THEN <<"B">> \o Merged(Tail(buys), sells)
    ELSE <<"S">> \o Merged(buys, Tail(sells))

\* C35: for the single-position variants (SmaCross, DualThrust) buy and sell
\* signals strictly alternate in date order beginning with a buy: at every
\* point of a run buys minus sells is 0 or 1 and no two buys follow each other
\* without a sell between them.
C35_SignalsAlternate ==
    strategy \in {"SmaCross", "DualThrust"} =>
        LET log == Merged(strat.buy_signals, strat.sell_signals)
        IN  /\ Len(strat.buy_signals) - Len(strat.sell_signals) \in {0, 1}
            /\ \A i \in 1..Len(log) : log[i] = (IF i % 2 = 1 THEN "B" ELSE "S")

\* the amount an order invests: its size at the close it was created at
Invested(order) == FMul(order.req, order.price)

\* C31: the amount SmileCurve invests is non-increasing in the price band: of
\* the buys of two consecutive bars, the one whose close lies higher in its
\* trailing range never invests more than the other.
C31_InvestmentNonIncreasingInBand ==
    [][(/\ strategy = "SmileCurve"
        /\ strat'.len = strat.len + 1
        /\ FLt(R(0), broker.order.size)
        /\ FLt(R(0), broker'.order.size))
       => LET lower  == PricePosition(df, strat.len)
              higher == PricePosition(df, strat'.len)
          IN  /\ FLt(lower, higher) => FLe(Invested(broker'.order), Invested(broker.order))
              /\ FLt(higher, lower) => FLe(Invested(broker.order), Invested(broker'.order))]_vars

\* (1 + g) to the power k
RECURSIVE Compound(_, _)
Compound(g, k) == IF k = 0 THEN R(1) ELSE FMul(FAdd(R(1), g), Compound(g, k - 1))

Requested(size, t) ==
    IF size = R(0) THEN NoOrder
    ELSE [size |-> size, price |-> R(df[t].Close), req |-> FAbs(size)]

\* C33: Grid issues no order on its first bar; afterwards it buys
\* cash * position_size / price when flat, sells min(cash * position_size /
\* price, position size) when price >= last_price * (1 + step), buys when
\* price <= last_price * (1 - step), and otherwise issues no order and leaves
\* last_price unchanged; last_price changes only on the first bar and on bars
\* where an order is issued, where it becomes the current close.
C33_GridTradesOnSteps ==
    [][(strategy = "Grid" /\ strat'.len = strat.len + 1) =>
        LET t          == strat'.len
            close      == df[t].Close
            price      == R(close)
            last       == strat.last_price
            trade_size == FDiv(FMul(broker'.cash, params.position_size), price)
            up         == FMul(R(last), FAdd(R(1), params.step))
            down       == FMul(R(last), FSub(R(1), params.step))
        IN  /\ IF last = -1 THEN broker'.order = NoOrder
               ELSE IF broker'.size = R(0)
               THEN broker'.order = Requested(trade_size, t)
               ELSE IF FLe(up, price)
               THEN broker'.order = Requested(FNeg(FMin(trade_size, broker'.size)), t)
               ELSE IF FLe(price, down)
               THEN broker'.order = Requested(trade_size, t)
               ELSE broker'.order = NoOrder /\ strat'.last_price = last
            /\ strat'.last_price # last =>
                  /\ last = -1 \/ broker'.order # NoOrder
                  /\ strat'.last_price = close]_vars

====
